---------------------------- MODULE Spec2Model ----------------------------
(***************************************************************************)
(* A model of the serial photo-mosaic program bmp_mosaic_base_andrew.cpp:  *)
(* main() and the functions it calls, one action per call of main.         *)
(*                                                                         *)
(* Arithmetic.  float values are modelled as exact rationals <<n, d>>      *)
(* (d = 0 is NaN, the value of 0.0/0.0); unsigned int is modelled with     *)
(* WordBits bits instead of 32, because TLC's integers are 32 bit: every   *)
(* size of the model stays below 2^(WordBits-1), so the only wrap that     *)
(* happens is the one the code has, (int)UINT_MAX = -1.                    *)
(***************************************************************************)
EXTENDS Integers, Sequences, FiniteSets, TLC

(***************************************************************************)
(* Bounds of the model.                                                    *)
(***************************************************************************)
WordBits == 16      \* width the model gives to unsigned int
MaxLda   == 3       \* TILE_LDA ranges over 1..MaxLda
MaxCand  == 4       \* the tile directory holds at most MaxCand images
MaxRpt   == 2       \* TILE_RPT_COUNT ranges over 1..MaxRpt
MaxDist  == 1       \* TILE_MIN_DIST ranges over 0..MaxDist
MaxRef   == 7       \* reference image sides range over 1..MaxRef

(***************************************************************************)
(* Program constants.                                                      *)
(***************************************************************************)
MinCrop == 20       \* "if (new_height <= 20)": the floor of the aspect scan
FILTER  == TRUE     \* #define FILTER 1

UINT_MAX == 2^WordBits - 1

\* unsigned arithmetic wraps
U(x) == x % (2^WordBits)
\* (int) of an unsigned value
ToInt(u) == IF u >= 2^(WordBits - 1) THEN u - 2^WordBits ELSE u

Abs(x) == IF x < 0 THEN -x ELSE x
Min(a, b) == IF a < b THEN a ELSE b

(***************************************************************************)
(* float as a rational <<n, d>> with d >= 0; d = 0 is NaN.  Every          *)
(* comparison with NaN is false.                                           *)
(***************************************************************************)
FDiv(n, d) == <<n, d>>
IsNaN(q) == q[2] = 0
FLess(p, q) == ~IsNaN(p) /\ ~IsNaN(q) /\ p[1] * q[2] < q[1] * p[2]
\* abs(p - q) <= e
FAbsDiffLeq(p, q, e) ==
    /\ ~IsNaN(p) /\ ~IsNaN(q)
    /\ Abs(p[1] * q[2] - q[1] * p[2]) * e[2] <= e[1] * p[2] * q[2]

\* the largest k with k*k <= n: (unsigned char) sqrt(x) for 0 <= x < 65536
Isqrt(n) == CHOOSE k \in 0..255 : k * k <= n /\ n < (k + 1) * (k + 1)

RECURSIVE SumSeq(_)
SumSeq(s) == IF s = <<>> THEN 0 ELSE Head(s) + SumSeq(Tail(s))

\* the values 0, step, 2*step, ... below limit: for (v = 0; v < limit; v += step)
LoopValues(limit, step) ==
    IF limit <= 0 THEN <<>>
    ELSE [k \in 1..((limit + step - 1) \div step) |-> (k - 1) * step]

(***************************************************************************)
(* The inputs: the tile directory DIR_IMG_PATH and the reference image     *)
(* FILE_REF.  A tile image is a two-colour checkerboard (colour a where    *)
(* x+y is even, b elsewhere); the reference image is painted in 2x2 blocks *)
(* from a short palette, along its diagonals.                              *)
(***************************************************************************)
Grey   == <<100, 100, 100>>
Red    == <<200, 100, 50>>
Green  == <<50, 200, 100>>
Blue   == <<100, 50, 200>>
Yellow == <<200, 200, 50>>
Mid    == <<105, 100, 100>>
Dark   == <<80, 100, 100>>

PaintList ==
    << [a |-> <<90, 100, 100>>,  b |-> <<90, 100, 100>>],
       [a |-> <<100, 100, 120>>, b |-> <<100, 100, 120>>],
       [a |-> <<110, 90, 100>>,  b |-> <<110, 90, 100>>],
       [a |-> <<70, 100, 100>>,  b |-> <<110, 100, 100>>],
       [a |-> <<200, 100, 60>>,  b |-> <<200, 100, 60>>] >>

Paint(k) == PaintList[((k - 1) % Len(PaintList)) + 1]

ImageFile(k, w, h) == [width |-> w, height |-> h, a |-> Paint(k).a, b |-> Paint(k).b]

\* n images of the same size
SameSizeDir(n, w, h) == [k \in 1..n |-> ImageFile(k, w, h)]

\* bitmap_image::get_pixel of a tile image
ImagePixel(f, x, y) == IF (x + y) % 2 = 0 THEN f.a ELSE f.b

Flat     == <<Grey>>
Colours  == <<Red, Green, Blue, Yellow, Grey>>
Shades   == <<Mid, Dark, Grey, Dark, Grey, Grey, Grey>>

\* bitmap_image::get_pixel of the reference image
RefPixel(r, x, y) == r.pat[(((x \div 2) + (y \div 2)) % Len(r.pat)) + 1]

\* what bitmap_image holds of a file: 0 x 0 when the file cannot be read
RefWidth(r)  == IF r.ok THEN r.width ELSE 0
RefHeight(r) == IF r.ok THEN r.height ELSE 0

\* (unsigned char) of a NaN float is undefined: the byte the build leaves
NaNBytes == {0, 255}

VARIABLES
    \* user definable variables and files (the environment of a run)
    TILE_LDA, TILE_RPT_COUNT, TILE_MIN_DIST, ASP_RATIO_ERR, FILTER_PERCENT,
    dir, ref,
    \* component image data
    cmp_img_min_width, cmp_img_min_height, components, components_size, tile_map,
    \* mosaic data
    mosaic, tiles,
    \* main
    check, pc, i,
    \* FILE_OUT on disk, and final_img of write_full_img
    file_out, final_img

env == <<TILE_LDA, TILE_RPT_COUNT, TILE_MIN_DIST, ASP_RATIO_ERR, FILTER_PERCENT, dir, ref>>
vars == <<env, cmp_img_min_width, cmp_img_min_height, components, components_size,
          tile_map, mosaic, tiles, check, pc, i, file_out, final_img>>

TOTAL_TILES == TILE_LDA * TILE_LDA

\* a bitmap: its size and the blocks copied into it; exists is FALSE for a
\* file that has not been written and an image that has not been loaded
NoImage == [exists |-> FALSE, width |-> 0, height |-> 0, blocks |-> <<>>]

(***************************************************************************)
(* The state after static initialisation, for one choice of the inputs.    *)
(***************************************************************************)
Globals ==
    /\ cmp_img_min_width = UINT_MAX
    /\ cmp_img_min_height = UINT_MAX
    /\ components = <<>>
    /\ components_size = 0
    /\ tile_map = <<>>
    /\ mosaic = [width |-> 0, height |-> 0, total |-> 0, rows |-> 0, cols |-> 0,
                 cmp_width |-> 0, cmp_height |-> 0]
    /\ tiles = <<>>
    /\ check = 1
    /\ pc = "list"
    /\ i = 0
    /\ file_out = NoImage
    /\ final_img = NoImage

\* runs that exercise the ranker, the fitter and the compositor: a reference
\* of 2N x 2N pixels and tile images of 2 x 2, so a cell is one 2x2 block
InitFit ==
    /\ TILE_LDA \in 1..MaxLda
    /\ TILE_RPT_COUNT \in 1..MaxRpt
    /\ TILE_MIN_DIST \in 0..MaxDist
    /\ ASP_RATIO_ERR = <<1, 100>>
    /\ dir \in {SameSizeDir(n, 2, 2) : n \in 1..MaxCand}
    /\ \E look \in { <<Flat, <<1, 2>> >>, <<Colours, <<1, 2>> >>, <<Colours, <<1, 4>> >>,
                      <<Shades, <<1, 2>> >> } :
          /\ ref = [ok |-> TRUE, width |-> 2 * TILE_LDA, height |-> 2 * TILE_LDA,
                    pat |-> look[1]]
          /\ FILTER_PERCENT = look[2]

\* runs that exercise the grid planner: every reference size, readable or
\* not, against directories whose minimum size is above, at and below the
\* floor of the scan and above and below the stride of the grid, or that
\* hold no image at all
PlanDirs ==
    { <<>>,
      SameSizeDir(2, 24, 22),
      <<ImageFile(1, 30, 24), ImageFile(2, 22, 26)>>,
      SameSizeDir(2, 4, 4),
      SameSizeDir(1, 4, 3),
      SameSizeDir(2, 1, 1) }

InitPlan ==
    /\ TILE_LDA \in 2..MaxLda
    /\ TILE_RPT_COUNT = MaxRpt
    /\ TILE_MIN_DIST = 0
    /\ ASP_RATIO_ERR \in {<<1, 100>>, <<1, 10>>}
    /\ FILTER_PERCENT = <<1, 2>>
    /\ dir \in PlanDirs
    /\ ref \in {[ok |-> TRUE, width |-> w, height |-> h, pat |-> p] :
                   w \in 1..MaxRef, h \in 1..MaxRef, p \in {Flat, Colours}}
               \cup {[ok |-> FALSE, width |-> 0, height |-> 0, pat |-> Flat]}

Init == Globals /\ (InitFit \/ InitPlan)

(***************************************************************************)
(* get_component_file_list: one component per file, in directory order,    *)
(* and the minimum width and height of the set.                            *)
(***************************************************************************)
RECURSIVE MinOver(_, _, _)
MinOver(s, k, m) ==
    IF k > Len(s) THEN m
    ELSE MinOver(s, k + 1, IF s[k] < m THEN s[k] ELSE m)

get_component_file_list ==
    /\ pc = "list"
    /\ components' = [k \in 1..Len(dir) |->
                        [width |-> dir[k].width, height |-> dir[k].height,
                         rgb |-> <<0, 0, 0>>, placed |-> 0]]
    /\ cmp_img_min_width' = MinOver([k \in 1..Len(dir) |-> dir[k].width], 1, cmp_img_min_width)
    /\ cmp_img_min_height' = MinOver([k \in 1..Len(dir) |-> dir[k].height], 1, cmp_img_min_height)
    /\ components_size' = Len(dir)
    /\ pc' = "metadata"
    /\ UNCHANGED <<env, tile_map, mosaic, tiles, check, i, file_out, final_img>>

(***************************************************************************)
(* Colour signature: sqrt(mean of squares) per channel, stored in an       *)
(* unsigned char.  With no sample the mean is 0.0/0.0 = NaN and the stored *)
(* byte is nan.                                                            *)
(***************************************************************************)
Channel(sumsq, count, nan) == IF count = 0 THEN nan ELSE Isqrt(sumsq \div count)

\* lines 673-674: the pixels (i, j) the two inner loops visit for the cell
\* whose strided loops stand at (x, y)
TileRegion(x, y, m, w_scaled, h_scaled) ==
    { <<ii, jj>> \in (x..(Min(x + m.cmp_width, w_scaled) - 1))
                      \X (y..(Min(y + m.cmp_height, h_scaled) - 1)) : TRUE }

\* lines 673-688: the region of the reference scored for the cell at (x, y)
TileWeight(r, x, y, m, w_scaled, h_scaled, nan) ==
    LET x1 == Min(x + m.cmp_width, w_scaled)
        y1 == Min(y + m.cmp_height, h_scaled)
        rw == IF x1 > x THEN x1 - x ELSE 0
        rh == IF y1 > y THEN y1 - y ELSE 0
        count == rw * rh
        sq(c) == SumSeq([k \in 1..count |->
                           RefPixel(r, x + ((k - 1) % rw), y + ((k - 1) \div rw))[c] ^ 2])
    IN  [c \in 1..3 |-> Channel(sq(c), count, nan)]

\* lines 469-478: count after the two loops over the tile-sized block
ComponentSamples(m) == m.cmp_width * m.cmp_height

\* lines 668-680: count after the two inner loops for the cell at (x, y)
TileSamples(x, y, m, w_scaled, h_scaled) ==
    Cardinality(TileRegion(x, y, m, w_scaled, h_scaled))

\* lines 471-486: a tile image scored over the cmp_height x cmp_width block at
\* its origin; a checkerboard has (n+1) div 2 pixels of colour a, n div 2 of b
ComponentWeight(f, m, nan) ==
    LET count == ComponentSamples(m)
        sq(c) == ((count + 1) \div 2) * f.a[c] ^ 2 + (count \div 2) * f.b[c] ^ 2
    IN  [c \in 1..3 |-> Channel(sq(c), count, nan)]

(***************************************************************************)
(* get_mosaic_metadata.                                                    *)
(***************************************************************************)
\* the scan "for (new = start; new > 0; new--)": found, error (return 1), or
\* none when the loop body never runs
RECURSIVE CropScan(_, _, _)
CropScan(new, cropHeight, ref_aspect_ratio) ==
    IF new <= 0 THEN [kind |-> "none", size |-> 0]
    ELSE LET ratio == IF cropHeight THEN FDiv(cmp_img_min_width, new)
                      ELSE FDiv(new, cmp_img_min_height)
         IN  IF FAbsDiffLeq(ref_aspect_ratio, ratio, ASP_RATIO_ERR)
             THEN [kind |-> "found", size |-> new]
             ELSE IF new <= MinCrop THEN [kind |-> "error", size |-> 0]
             ELSE CropScan(new - 1, cropHeight, ref_aspect_ratio)

\* lines 594-632: the outcome of the aspect scan for a w x h reference
AspectScan(w, h) ==
    LET ref_aspect_ratio == FDiv(w, h)
        cmp_aspect_ratio == FDiv(cmp_img_min_width, cmp_img_min_height)
        cropHeight == FLess(cmp_aspect_ratio, ref_aspect_ratio)
        scan == IF cropHeight
                THEN CropScan(ToInt(cmp_img_min_height), TRUE, ref_aspect_ratio)
                ELSE CropScan(ToInt(cmp_img_min_width), FALSE, ref_aspect_ratio)
    IN  [kind |-> scan.kind, cropHeight |-> cropHeight, size |-> scan.size]

\* lines 604-605, 622-623, 644-649: the plan once the scan has not failed
PlanOf(scan) ==
    LET cw == IF scan.kind = "found"
              THEN (IF scan.cropHeight THEN cmp_img_min_width ELSE scan.size)
              ELSE mosaic.cmp_width
        ch == IF scan.kind = "found"
              THEN (IF scan.cropHeight THEN scan.size ELSE cmp_img_min_height)
              ELSE mosaic.cmp_height
    IN  [width |-> U(cw * TILE_LDA), height |-> U(ch * TILE_LDA), total |-> TOTAL_TILES,
         rows |-> TILE_LDA, cols |-> TILE_LDA, cmp_width |-> cw, cmp_height |-> ch]

\* lines 651-697: one cell per (y, x) of the two strided loops, row by row
CellsOf(m, w, h, nan) ==
    LET h_scaled == (h \div m.rows) * m.rows
        w_scaled == (w \div m.cols) * m.cols
        ys == LoopValues(h_scaled, h \div m.rows)
        xs == LoopValues(w_scaled, w \div m.cols)
    IN  [k \in 1..(Len(ys) * Len(xs)) |->
            LET y_count == (k - 1) \div Len(xs)
                x_count == (k - 1) % Len(xs)
            IN  [start_x |-> U(x_count * m.cmp_width),
                 start_y |-> U(y_count * m.cmp_height),
                 img_index |-> -1,
                 rgb |-> TileWeight(ref, xs[x_count + 1], ys[y_count + 1], m,
                                    w_scaled, h_scaled, nan)]]

get_mosaic_metadata ==
    /\ pc = "metadata"
    /\ LET w == RefWidth(ref)
           h == RefHeight(ref)
           scan == AspectScan(w, h)
       IN  IF scan.kind = "error"
           THEN /\ mosaic' = [mosaic EXCEPT !.total = TOTAL_TILES]
                /\ check' = 1
                /\ UNCHANGED tiles
           ELSE \E nan \in NaNBytes :
                /\ mosaic' = PlanOf(scan)
                /\ tiles' = tiles \o CellsOf(PlanOf(scan), w, h, nan)
                /\ check' = 0
    /\ pc' = "weight"
    /\ UNCHANGED <<env, cmp_img_min_width, cmp_img_min_height, components, components_size,
                   tile_map, i, file_out, final_img>>

(***************************************************************************)
(* get_component_file_weight: runs before main looks at check.             *)
(***************************************************************************)
get_component_file_weight ==
    /\ pc = "weight"
    /\ \E nan \in NaNBytes :
         components' = [k \in 1..Len(components) |->
                          [components[k] EXCEPT !.rgb = ComponentWeight(dir[k], mosaic, nan)]]
    /\ pc' = "template"
    /\ UNCHANGED <<env, cmp_img_min_width, cmp_img_min_height, components_size, tile_map,
                   mosaic, tiles, check, i, file_out, final_img>>

\* main, line 753: if (check) return 0;
main_return ==
    /\ pc = "template"
    /\ check # 0
    /\ pc' = "returned"
    /\ UNCHANGED <<env, cmp_img_min_width, cmp_img_min_height, components, components_size,
                   tile_map, mosaic, tiles, check, i, file_out, final_img>>

\* write_bmp_template, then main's tile_map.resize(TOTAL_TILES)
write_bmp_template ==
    /\ pc = "template"
    /\ check = 0
    /\ file_out' = [exists |-> TRUE, width |-> mosaic.width, height |-> mosaic.height,
                    blocks |-> <<>>]
    /\ tile_map' = [k \in 1..TOTAL_TILES |-> <<>>]
    /\ pc' = "rank"
    /\ i' = 0
    /\ UNCHANGED <<env, cmp_img_min_width, cmp_img_min_height, components, components_size,
                   mosaic, tiles, check, final_img>>

(***************************************************************************)
(* Rank functions.                                                         *)
(***************************************************************************)
\* compare_tiles: strictly less, by absolute value
compare_tiles(img1, img2) == Abs(img1.value) < Abs(img2.value)

\* a variant of MapEntry that adds the absolute channel differences
MapEntryPerChannel(n, target) ==
    LET r == components[n + 1].rgb[1] - target[1]
        g == components[n + 1].rgb[2] - target[2]
        b == components[n + 1].rgb[3] - target[3]
    IN  [index |-> n, value |-> Abs(r) + Abs(g) + Abs(b)]

\* lines 421-428: the entry of component n (0-based) for a cell target
MapEntry(n, target) ==
    LET r == components[n + 1].rgb[1] - target[1]
        g == components[n + 1].rgb[2] - target[2]
        b == components[n + 1].rgb[3] - target[3]
    IN  [index |-> n, value |-> Abs(r + g + b)]

\* std::sort(first, last, compare_tiles): some rearrangement of s in which no
\* element is followed by one that compares less; the order of elements that
\* compare equal is not specified
RECURSIVE Arrangements(_, _)
Arrangements(s, left) ==
    IF left = {} THEN {<<>>}
    ELSE UNION { { <<s[m]>> \o rest : rest \in Arrangements(s, left \ {m}) } :
                 m \in {k \in left : \A j \in left : ~compare_tiles(s[j], s[k])} }

SortOutcomes(s) == Arrangements(s, 1..Len(s))

\* an element of a std::vector read or written outside its size: the vectors
\* concerned are empty there, so the access goes through a null data pointer
Crash ==
    /\ pc' = "crashed"
    /\ UNCHANGED <<env, cmp_img_min_width, cmp_img_min_height, components, components_size,
                   tile_map, mosaic, tiles, check, i, file_out, final_img>>

\* tile_rank_fits(i), and main's loop around it
tile_rank_fits ==
    /\ pc = "rank"
    /\ IF components_size > 0 /\ i >= Len(tiles)
       THEN Crash
       ELSE /\ \E ranked \in SortOutcomes([n \in 1..components_size |->
                                             MapEntry(n - 1, tiles[i + 1].rgb)]) :
                 tile_map' = [tile_map EXCEPT ![i + 1] = ranked]
            /\ IF i + 1 < TOTAL_TILES
               THEN i' = i + 1 /\ pc' = "rank"
               ELSE i' = 0 /\ pc' = "fit"
            /\ UNCHANGED <<env, cmp_img_min_width, cmp_img_min_height, components,
                           components_size, mosaic, tiles, check, file_out, final_img>>

(***************************************************************************)
(* Fit functions.                                                          *)
(***************************************************************************)
\* a variant of fit_check_repeated whose column loop stops before TILE_MIN_DIST
fit_check_repeated_short(tile_index, img_index) ==
    \E row \in (0 - TILE_MIN_DIST)..TILE_MIN_DIST,
       col \in (0 - TILE_MIN_DIST)..(TILE_MIN_DIST - 1) :
        LET r == (tile_index \div mosaic.cols) + row
            c == (tile_index % mosaic.cols) + col
            loc == r * mosaic.cols + c
        IN  /\ loc < TOTAL_TILES
            /\ loc >= 0
            /\ tiles[loc + 1].img_index = img_index

\* fit_check_repeated: TRUE for "a repeat seen"
fit_check_repeated(tile_index, img_index) ==
    \E row \in (0 - TILE_MIN_DIST)..TILE_MIN_DIST, col \in (0 - TILE_MIN_DIST)..TILE_MIN_DIST :
        LET r == (tile_index \div mosaic.cols) + row
            c == (tile_index % mosaic.cols) + col
            loc == r * mosaic.cols + c
        IN  /\ loc < TOTAL_TILES
            /\ loc >= 0
            /\ tiles[loc + 1].img_index = img_index

\* a variant of KeepLooking that lets a candidate at the cap through
KeepLookingOverCap(n, img_index, seen) ==
    n < components_size /\ (components[img_index + 1].placed > TILE_RPT_COUNT \/ seen)

\* the test of the while loop of fit_best_pick_sparse, line 369
KeepLooking(n, img_index, seen) ==
    n < components_size /\ (components[img_index + 1].placed >= TILE_RPT_COUNT \/ seen)

RECURSIVE SparseLoop(_, _, _, _)
SparseLoop(tile_index, n, img_index, seen) ==
    IF KeepLooking(n, img_index, seen)
    THEN LET next == tile_map[tile_index + 1][n + 1].index
         IN  SparseLoop(tile_index, n + 1, next, fit_check_repeated(tile_index, next))
    ELSE img_index

fit_best_pick_sparse(tile_index) ==
    SparseLoop(tile_index, 0, tile_map[tile_index + 1][1].index, TRUE)

\* fit_best_pick: the variant without the distance check (main does not call it)
RECURSIVE BestLoop(_, _, _)
BestLoop(tile_index, n, img_index) ==
    IF n < components_size /\ components[img_index + 1].placed >= TILE_RPT_COUNT
    THEN BestLoop(tile_index, n + 1, tile_map[tile_index + 1][n + 1].index)
    ELSE img_index

fit_best_pick(tile_index) == BestLoop(tile_index, 0, tile_map[tile_index + 1][1].index)

\* a variant of PlaceImage that forgets the counter
PlaceImageUncounted(tile_index, img_index) ==
    /\ tiles' = [tiles EXCEPT ![tile_index + 1].img_index = img_index]
    /\ components' = components

\* lines 392-393
PlaceImage(tile_index, img_index) ==
    /\ tiles' = [tiles EXCEPT ![tile_index + 1].img_index = img_index]
    /\ components' = [components EXCEPT ![img_index + 1].placed = @ + 1]

\* tile_place_best_fit(i), and main's loop around it
tile_place_best_fit ==
    /\ pc = "fit"
    /\ IF components_size = 0 \/ i >= Len(tiles)
       THEN Crash
       ELSE /\ PlaceImage(i, fit_best_pick_sparse(i))
            /\ IF i + 1 < TOTAL_TILES
               THEN i' = i + 1 /\ pc' = "fit"
               ELSE i' = 0 /\ pc' = "write"
            /\ UNCHANGED <<env, cmp_img_min_width, cmp_img_min_height, components_size,
                           tile_map, mosaic, check, file_out, final_img>>

(***************************************************************************)
(* write_full_img, one tile per step; the last step saves the image.       *)
(***************************************************************************)
\* (unsigned char)(c + f * (float)(t - c)), as "c += f * (float)(t - c)" stores it
Blend(c, t) ==
    (c * FILTER_PERCENT[2] + FILTER_PERCENT[1] * (t - c)) \div FILTER_PERCENT[2]

\* a variant of FilterPixel whose comparisons are not strict
FilterPixelShared(target, rgb) ==
    IF target[1] >= target[2] /\ target[1] >= target[3]
    THEN <<Blend(rgb[1], target[1]), rgb[2], rgb[3]>>
    ELSE IF target[2] >= target[1] /\ target[2] >= target[3]
    THEN <<rgb[1], Blend(rgb[2], target[2]), rgb[3]>>
    ELSE <<rgb[1], rgb[2], Blend(rgb[3], target[3])>>

\* lines 284-295: the pixel set back into tile_img
FilterPixel(target, rgb) ==
    IF target[1] > target[2] /\ target[1] > target[3]
    THEN <<Blend(rgb[1], target[1]), rgb[2], rgb[3]>>
    ELSE IF target[2] > target[1] /\ target[2] > target[3]
    THEN <<rgb[1], Blend(rgb[2], target[2]), rgb[3]>>
    ELSE IF target[3] > target[1] /\ target[3] > target[2]
    THEN <<rgb[1], rgb[2], Blend(rgb[3], target[3])>>
    ELSE rgb

\* lines 272-301: the block copied into final_img for a tile; a and b are the
\* colours of its pixels with x+y even and odd
BlockOf(cur_tile) ==
    LET f == dir[cur_tile.img_index + 1]
    IN  [x |-> cur_tile.start_x, y |-> cur_tile.start_y,
         w |-> mosaic.cmp_width, h |-> mosaic.cmp_height,
         a |-> IF FILTER THEN FilterPixel(cur_tile.rgb, ImagePixel(f, 0, 0))
               ELSE ImagePixel(f, 0, 0),
         b |-> IF FILTER THEN FilterPixel(cur_tile.rgb, ImagePixel(f, 1, 0))
               ELSE ImagePixel(f, 1, 0)]

write_full_img ==
    /\ pc = "write"
    /\ LET loaded == IF i = 0 THEN file_out ELSE final_img
           stamped == [loaded EXCEPT !.blocks = Append(@, BlockOf(tiles[i + 1]))]
       IN  /\ final_img' = stamped
           /\ IF i + 1 < TOTAL_TILES
              THEN i' = i + 1 /\ pc' = "write" /\ UNCHANGED file_out
              ELSE i' = 0 /\ pc' = "done" /\ file_out' = stamped
    /\ UNCHANGED <<env, cmp_img_min_width, cmp_img_min_height, components, components_size,
                   tile_map, mosaic, tiles, check>>

Next ==
    \/ get_component_file_list
    \/ get_mosaic_metadata
    \/ get_component_file_weight
    \/ main_return
    \/ write_bmp_template
    \/ tile_rank_fits
    \/ tile_place_best_fit
    \/ write_full_img

Spec == Init /\ [][Next]_vars

(***************************************************************************)
(* Vocabulary of the properties.  Cells are numbered 0..N*N-1 as in the    *)
(* code; the fitter never rewrites an assignment (C4), so what a cell saw  *)
(* when it was visited is what the cells before it hold.                   *)
(***************************************************************************)
Ranked == IF pc = "rank" THEN i ELSE IF pc \in {"fit", "write", "done"} THEN TOTAL_TILES ELSE 0
Fitted == IF pc = "fit" THEN i ELSE IF pc \in {"write", "done"} THEN TOTAL_TILES ELSE 0
FitDone == pc \in {"write", "done"}

Candidates == 0..(components_size - 1)
Holds(t) == tiles[t + 1].img_index
RankAt(t, k) == tile_map[t + 1][k].index
CellsHolding(c) == {t \in 0..(Len(tiles) - 1) : Holds(t) = c}
PlacedBefore(t, c) == Cardinality({j \in 0..(t - 1) : Holds(j) = c})

RowOf(t) == t \div TILE_LDA
ColOf(t) == t % TILE_LDA
Near(s, t) ==
    /\ Abs(RowOf(s) - RowOf(t)) <= TILE_MIN_DIST
    /\ Abs(ColOf(s) - ColOf(t)) <= TILE_MIN_DIST

\* acceptable, as the specification defines it
Acceptable(t, c) ==
    /\ PlacedBefore(t, c) < TILE_RPT_COUNT
    /\ ~\E j \in 0..(t - 1) : Near(j, t) /\ Holds(j) = c

\* the cells before t that the scan of fit_check_repeated reads for t: the
\* offsets are added to the linear index, so a column offset that leaves the
\* row lands in the row above or below
Scanned(t) ==
    { (RowOf(t) + row) * TILE_LDA + ColOf(t) + col :
        row \in (0 - TILE_MIN_DIST)..TILE_MIN_DIST, col \in (0 - TILE_MIN_DIST)..TILE_MIN_DIST }
    \cap (0..(t - 1))

\* a candidate that the two tests of the fitter's loop let through
Passes(t, c) ==
    /\ PlacedBefore(t, c) < TILE_RPT_COUNT
    /\ ~\E j \in Scanned(t) : Holds(j) = c

\* the scan of cell t ran off the end of its list
Exhausted(t) == ~\E c \in Candidates : Passes(t, c)

\* the position of the first candidate of t's list with property P
FirstRank(t, P(_, _)) ==
    CHOOSE k \in 1..components_size :
        /\ P(t, RankAt(t, k))
        /\ \A m \in 1..(k - 1) : ~P(t, RankAt(t, m))

C3_FirstAcceptable ==
    \A t \in 0..(Fitted - 1) :
        (\E c \in Candidates : Acceptable(t, c))
            => Holds(t) = RankAt(t, FirstRank(t, Acceptable))

\* what the code does instead: the first candidate passing its own tests,
\* and the last of the list when none does
C3_FirstPassing ==
    \A t \in 0..(Fitted - 1) :
        Holds(t) = IF Exhausted(t) THEN RankAt(t, components_size)
                   ELSE RankAt(t, FirstRank(t, Passes))

(***************************************************************************)
(* C4: after k cells have been fitted exactly the cells 0..k-1 hold a      *)
(* candidate index in 0..count-1 and the others hold -1, the counters sum  *)
(* to k, and at the end k is N*N; no step changes an assignment that has   *)
(* been made.                                                              *)
(***************************************************************************)
C4_Counted ==
    /\ \A t \in 0..(Len(tiles) - 1) :
          IF t < Fitted THEN Holds(t) \in Candidates ELSE Holds(t) = -1
    /\ Fitted > 0 => Len(tiles) = TOTAL_TILES
    /\ SumSeq([k \in 1..Len(components) |-> components[k].placed]) = Fitted
    /\ FitDone => /\ Fitted = TOTAL_TILES
                  /\ \A t \in 0..(TOTAL_TILES - 1) : Holds(t) \in Candidates

C4_WrittenOnce ==
    \A t \in 0..(Len(tiles) - 1) :
        /\ Len(tiles') = Len(tiles)
        /\ Holds(t) # -1 => tiles'[t + 1].img_index = Holds(t)
        /\ tiles'[t + 1].img_index # Holds(t) => (pc = "fit" /\ t = i)

C4_Accounting == [] C4_Counted /\ [][C4_WrittenOnce]_vars

\* a fit in progress, and a finished one, on a grid of several cells
C4_Witness ==
    /\ pc = "done"
    /\ TOTAL_TILES >= 4
    /\ components_size >= 2
    /\ SumSeq([k \in 1..Len(components) |-> components[k].placed]) = TOTAL_TILES

(***************************************************************************)
(* C5: the list tile_rank_fits leaves for a cell holds every candidate     *)
(* index 0..count-1 once, each with the value |(Ri-Rt)+(Gi-Gt)+(Bi-Bt)|    *)
(* for that candidate and the cell target, in non-decreasing order of      *)
(* value; so against the target (100,100,100) the candidate (110,90,100)   *)
(* has value 0 and stands before (90,100,100), value 10, which stands      *)
(* before (100,100,120), value 20.                                         *)
(***************************************************************************)
RankedCells == 0..(Min(Ranked, Len(tiles)) - 1)
PositionOf(t, c) == CHOOSE k \in 1..Len(tile_map[t + 1]) : RankAt(t, k) = c

C5_RankingOrder ==
    \A t \in RankedCells :
        LET list == tile_map[t + 1]
            target == tiles[t + 1].rgb
            sig(c) == components[c + 1].rgb
        IN  /\ Len(list) = components_size
            /\ {list[k].index : k \in 1..Len(list)} = Candidates
            /\ \A k \in 1..Len(list) :
                  LET c == list[k].index
                      d == (sig(c)[1] - target[1]) + (sig(c)[2] - target[2])
                              + (sig(c)[3] - target[3])
                  IN  list[k].value = IF d < 0 THEN 0 - d ELSE d
            /\ \A a, b \in 1..Len(list) : a < b => list[a].value <= list[b].value
            /\ target = <<100, 100, 100>> =>
                  \A x \in Candidates : sig(x) = <<110, 90, 100>> =>
                  \A y \in Candidates : sig(y) = <<90, 100, 100>> =>
                  \A z \in Candidates : sig(z) = <<100, 100, 120>> =>
                      /\ list[PositionOf(t, x)].value = 0
                      /\ list[PositionOf(t, y)].value = 10
                      /\ list[PositionOf(t, z)].value = 20
                      /\ PositionOf(t, x) < PositionOf(t, y)
                      /\ PositionOf(t, y) < PositionOf(t, z)

\* the three candidates of the example ranked for a cell whose target is
\* (100,100,100): the one whose channel differences cancel comes first
C5_Witness ==
    /\ pc = "fit"
    /\ components_size >= 3
    /\ \E t \in RankedCells :
          /\ tiles[t + 1].rgb = <<100, 100, 100>>
          /\ components[RankAt(t, 1) + 1].rgb = <<110, 90, 100>>
          /\ components[RankAt(t, 2) + 1].rgb = <<90, 100, 100>>
          /\ components[RankAt(t, 3) + 1].rgb = <<100, 100, 120>>

(***************************************************************************)
(* C6: in every ranked list, two candidates with equal value stand in      *)
(* candidate order: the lower index first.                                 *)
(***************************************************************************)
C6_StableTies ==
    \A t \in RankedCells :
        \A a, b \in 1..Len(tile_map[t + 1]) :
            (a < b /\ tile_map[t + 1][a].value = tile_map[t + 1][b].value)
                => RankAt(t, a) < RankAt(t, b)

(***************************************************************************)
(* C7: whenever get_mosaic_metadata has returned success for a reference   *)
(* image of some size, the tile width and height are positive, rows = cols *)
(* = TILE_LDA, and the mosaic width and height are the tile width and      *)
(* height times TILE_LDA; also with the minimum sizes an empty directory   *)
(* leaves.                                                                 *)
(***************************************************************************)
Planned == pc \notin {"list", "metadata"} /\ check = 0 /\ ref.ok

C7_GridPlan ==
    Planned =>
        /\ mosaic.cmp_width > 0
        /\ mosaic.cmp_height > 0
        /\ mosaic.rows = TILE_LDA
        /\ mosaic.cols = TILE_LDA
        /\ mosaic.width = mosaic.cmp_width * TILE_LDA
        /\ mosaic.height = mosaic.cmp_height * TILE_LDA

(***************************************************************************)
(* C8: after get_mosaic_metadata has returned success for a reference of   *)
(* any size W x H, also W < N or H < N, the cell array has TILE_LDA *      *)
(* TILE_LDA entries, entry i lies at pixel offset ((i mod N) * tile width, *)
(* (i div N) * tile height), and the tile-sized blocks of distinct cells   *)
(* are disjoint and inside the mosaic.                                     *)
(***************************************************************************)
Overlap(s, t) ==
    /\ s.start_x < t.start_x + mosaic.cmp_width
    /\ t.start_x < s.start_x + mosaic.cmp_width
    /\ s.start_y < t.start_y + mosaic.cmp_height
    /\ t.start_y < s.start_y + mosaic.cmp_height

C8_CellLayout ==
    Planned =>
        /\ Len(tiles) = TILE_LDA * TILE_LDA
        /\ \A n \in 0..(Len(tiles) - 1) :
              /\ tiles[n + 1].start_x = (n % TILE_LDA) * mosaic.cmp_width
              /\ tiles[n + 1].start_y = (n \div TILE_LDA) * mosaic.cmp_height
              /\ tiles[n + 1].start_x + mosaic.cmp_width <= mosaic.width
              /\ tiles[n + 1].start_y + mosaic.cmp_height <= mosaic.height
        /\ \A m, n \in 1..Len(tiles) : m # n => ~Overlap(tiles[m], tiles[n])

(***************************************************************************)
(* C9 (as stated): for every pixel stamped, a channel in which the cell    *)
(* target is maximal is written as candidate + f * (target - candidate),   *)
(* truncated, and the other two channels unchanged: exactly one channel is *)
(* adjusted for every target, also when the maximum is shared.             *)
(***************************************************************************)
\* q is c + f * (t - c) cut to an integer
IsBlend(q, c, t) ==
    /\ q * FILTER_PERCENT[2] <= c * FILTER_PERCENT[2] + FILTER_PERCENT[1] * (t - c)
    /\ c * FILTER_PERCENT[2] + FILTER_PERCENT[1] * (t - c) < (q + 1) * FILTER_PERCENT[2]

\* the pixels stamped so far: <<cell target, pixel of the tile image, pixel written>>
Stamped ==
    UNION { LET f == dir[tiles[k].img_index + 1]
                blk == final_img.blocks[k]
            IN  { <<tiles[k].rgb, f.a, blk.a>>, <<tiles[k].rgb, f.b, blk.b>> } :
            k \in 1..Len(final_img.blocks) }

AdjustedIn(s, m) ==
    /\ IsBlend(s[3][m], s[2][m], s[1][m])
    /\ \A n \in 1..3 : n # m => s[3][n] = s[2][n]

C9_OneChannelAlways ==
    FILTER => \A s \in Stamped :
                 \E m \in 1..3 : /\ \A n \in 1..3 : s[1][m] >= s[1][n]
                                 /\ AdjustedIn(s, m)

(***************************************************************************)
(* C9 (amended): when one channel of the cell target is strictly greater   *)
(* than both others, that channel of every stamped pixel is written as     *)
(* candidate + f * (target - candidate), truncated, and the other two      *)
(* unchanged; when the maximum is shared, the pixel is written unchanged.  *)
(***************************************************************************)
Dominant(t, m) == \A n \in 1..3 : n # m => t[m] > t[n]

C9_ColorFilter ==
    FILTER => \A s \in Stamped :
                 /\ \A m \in 1..3 : Dominant(s[1], m) => AdjustedIn(s, m)
                 /\ (~\E m \in 1..3 : Dominant(s[1], m)) => s[3] = s[2]
                 /\ \A n \in 1..3 : s[3][n] \in 0..255

\* the example of the claim (f = 0.5, target red 200 dominant, candidate red
\* 100, written red 150) and a pixel under a target with a shared maximum
C9_Witness ==
    /\ pc = "done"
    /\ FILTER_PERCENT = <<1, 2>>
    /\ \E s \in Stamped : /\ Dominant(s[1], 1) /\ s[1][1] = 200
                          /\ s[2][1] = 100 /\ s[3][1] = 150
    /\ \E s \in Stamped : /\ s[1][1] = s[1][2] /\ s[1][1] > s[1][3]
                          /\ s[2][1] # s[1][1] /\ s[3] = s[2]

(***************************************************************************)
(* C10: if the reference image cannot be read, or the aspect scan reaches  *)
(* its floor without meeting the tolerance, get_mosaic_metadata reports    *)
(* failure and the run stops before any output: the template is not        *)
(* written and no ranking, fitting or compositing step runs.               *)
(***************************************************************************)
ScanFails == AspectScan(RefWidth(ref), RefHeight(ref)).kind = "error"

C10_FatalErrors ==
    (pc \notin {"list", "metadata"} /\ (~ref.ok \/ ScanFails)) =>
        /\ check # 0
        /\ ~file_out.exists
        /\ pc \in {"weight", "template", "returned"}

\* the part of C10 the code keeps: a scan that reaches the floor stops the run
C10_ScanFloor ==
    (pc \notin {"list", "metadata"} /\ ScanFails) =>
        /\ check # 0
        /\ ~file_out.exists
        /\ pc \in {"weight", "template", "returned"}

(***************************************************************************)
(* C11: for every cell (row r, column c) the pixels of the reference that  *)
(* are scored for its target are exactly those of its own stride-sized     *)
(* rectangle, x in [c*(W div N), (c+1)*(W div N)) and y in [r*(H div N),   *)
(* (r+1)*(H div N)), and its target is the colour signature of that        *)
(* rectangle; so the regions of distinct cells are disjoint and together   *)
(* cover the (W div N)*N by (H div N)*N area at the origin, whatever the   *)
(* tile pixel size is.                                                     *)
(***************************************************************************)
StrideX == RefWidth(ref) \div TILE_LDA
StrideY == RefHeight(ref) \div TILE_LDA

\* the rectangle of the reference that belongs to cell n
OwnRegion(n) ==
    (((n % TILE_LDA) * StrideX)..(((n % TILE_LDA) + 1) * StrideX - 1))
        \X (((n \div TILE_LDA) * StrideY)..(((n \div TILE_LDA) + 1) * StrideY - 1))

\* the pixels get_mosaic_metadata scored for cell n
ScoredRegion(n) ==
    TileRegion((n % TILE_LDA) * StrideX, (n \div TILE_LDA) * StrideY, mosaic,
               StrideX * TILE_LDA, StrideY * TILE_LDA)

\* the colour signature of the rectangle that belongs to cell n
OwnSignature(n) ==
    TileWeight(ref, (n % TILE_LDA) * StrideX, (n \div TILE_LDA) * StrideY,
               [cmp_width |-> StrideX, cmp_height |-> StrideY],
               StrideX * TILE_LDA, StrideY * TILE_LDA, 0)

C11_TargetRegion ==
    Planned =>
        /\ \A n \in 0..(Len(tiles) - 1) :
              /\ ScoredRegion(n) = OwnRegion(n)
              /\ tiles[n + 1].rgb = OwnSignature(n)
        /\ \A m, n \in 0..(Len(tiles) - 1) :
              m # n => ScoredRegion(m) \cap ScoredRegion(n) = {}
        /\ UNION {ScoredRegion(n) : n \in 0..(Len(tiles) - 1)}
              = (0..(StrideX * TILE_LDA - 1)) \X (0..(StrideY * TILE_LDA - 1))

\* the part of C11 the code keeps: a cell is scored over its own rectangle
\* when the tile is exactly as large as the stride
C11_TileIsStride ==
    (Planned /\ mosaic.cmp_width = StrideX /\ mosaic.cmp_height = StrideY) =>
        \A n \in 0..(Len(tiles) - 1) :
            /\ ScoredRegion(n) = OwnRegion(n)
            /\ tiles[n + 1].rgb = OwnSignature(n)

(***************************************************************************)
(* C12: once get_mosaic_metadata has returned: when the candidate aspect   *)
(* is below the reference aspect, success means tile width = minimum       *)
(* candidate width and tile height = the largest h from the floor (20) up  *)
(* to the minimum candidate height with |reference aspect - width / h|     *)
(* within the tolerance, and symmetrically for the width otherwise; on     *)
(* success the tile and the mosaic aspect are within the tolerance of the  *)
(* reference aspect; and the planner fails exactly when no dimension from  *)
(* the candidate minimum down to the floor meets the tolerance.            *)
(***************************************************************************)
RefAspect == FDiv(RefWidth(ref), RefHeight(ref))
CropsHeight == FLess(FDiv(cmp_img_min_width, cmp_img_min_height), RefAspect)
Within(tw, th) == FAbsDiffLeq(RefAspect, FDiv(tw, th), ASP_RATIO_ERR)

\* the dimensions of a set of tested ones that meet the tolerance
GoodHeights(tested) == {d \in tested : Within(cmp_img_min_width, d)}
GoodWidths(tested) == {d \in tested : Within(d, cmp_img_min_height)}

IsLargest(d, S) == d \in S /\ \A e \in S : e <= d

C12_AspectScan ==
    pc \notin {"list", "metadata"} =>
        IF check = 0
        THEN /\ Within(mosaic.cmp_width, mosaic.cmp_height)
             /\ Within(mosaic.width, mosaic.height)
             /\ IF CropsHeight
                THEN /\ mosaic.cmp_width = cmp_img_min_width
                     /\ IsLargest(mosaic.cmp_height,
                                  GoodHeights(MinCrop..cmp_img_min_height))
                ELSE /\ mosaic.cmp_height = cmp_img_min_height
                     /\ IsLargest(mosaic.cmp_width,
                                  GoodWidths(MinCrop..cmp_img_min_width))
        ELSE IF CropsHeight
             THEN GoodHeights(MinCrop..cmp_img_min_height) = {}
             ELSE GoodWidths(MinCrop..cmp_img_min_width) = {}

\* what the scan does: the dimensions it tests are those from the minimum,
\* read as an int, down to the floor, or the minimum alone when that is
\* below the floor, or none when the minimum is not positive; it fails when
\* it tested some and none met the tolerance, takes the largest that did,
\* and leaves the tile size 0 x 0 when it tested none
Tested(start) == {d \in 1..ToInt(start) : d >= Min(ToInt(start), MinCrop)}

C12_ScanTested ==
    pc \notin {"list", "metadata"} =>
        LET hs == GoodHeights(Tested(cmp_img_min_height))
            ws == GoodWidths(Tested(cmp_img_min_width))
            none == IF CropsHeight THEN Tested(cmp_img_min_height) = {}
                    ELSE Tested(cmp_img_min_width) = {}
        IN  IF check # 0
            THEN ~none /\ (IF CropsHeight THEN hs = {} ELSE ws = {})
            ELSE IF none
                 THEN mosaic.cmp_width = 0 /\ mosaic.cmp_height = 0
                 ELSE /\ Within(mosaic.cmp_width, mosaic.cmp_height)
                      /\ Within(mosaic.width, mosaic.height)
                      /\ IF CropsHeight
                         THEN /\ mosaic.cmp_width = cmp_img_min_width
                              /\ IsLargest(mosaic.cmp_height, hs)
                         ELSE /\ mosaic.cmp_height = cmp_img_min_height
                              /\ IsLargest(mosaic.cmp_width, ws)

\* a run in which the scan cropped the height below the minimum, one in
\* which it cropped the width, and one in which it failed at the floor
C12_CroppedHeight ==
    /\ check = 0 /\ pc = "weight" /\ CropsHeight
    /\ mosaic.cmp_height < cmp_img_min_height /\ mosaic.cmp_height >= MinCrop
C12_CroppedWidth ==
    /\ check = 0 /\ pc = "weight" /\ ~CropsHeight
    /\ mosaic.cmp_width < cmp_img_min_width /\ mosaic.cmp_width >= MinCrop
C12_FailedAtFloor ==
    /\ check # 0 /\ pc = "weight" /\ ref.ok /\ cmp_img_min_height > MinCrop

(***************************************************************************)
(* C13: in every run, also when get_mosaic_metadata failed or the tile     *)
(* directory is empty, every candidate signature and every cell target     *)
(* that has been computed was computed over at least one pixel: the count  *)
(* that divides the sums is never 0.                                       *)
(***************************************************************************)
\* the count get_component_file_weight divided by, for every candidate
CandidateCount == ComponentSamples(mosaic)

\* the count get_mosaic_metadata divided by for cell n
TargetCount(n) ==
    TileSamples((n % TILE_LDA) * StrideX, (n \div TILE_LDA) * StrideY, mosaic,
                StrideX * TILE_LDA, StrideY * TILE_LDA)

Weighed == pc \notin {"list", "metadata", "weight"}

C13_NoEmptyRegion ==
    /\ (Weighed /\ components_size > 0) => CandidateCount > 0
    /\ pc \notin {"list", "metadata"} =>
          \A n \in 0..(Len(tiles) - 1) : TargetCount(n) > 0

\* the part of C13 the code keeps: no count is 0 when the planner succeeded
\* on a directory that holds an image
C13_PlannedNonEmpty ==
    (check = 0 /\ components_size > 0) => C13_NoEmptyRegion

\* a failed planner followed by the weighing of a candidate
C13_WeighedAfterFailure == Weighed /\ check # 0 /\ components_size > 0

=============================================================================
